---------------------------- MODULE Spec2Model ----------------------------
(***************************************************************************)
(* A model of subwoofer (src/src/main.rs): the audio callback conditions   *)
(* one sample per frame and hands it to a bounded tokio mpsc channel (the  *)
(* relay); the control loop of main drains the channel, averages and       *)
(* clamps the batch, and commands every device.                            *)
(*                                                                         *)
(* Numbers.  Amplitudes and intensities are f64 in the program.  Here a    *)
(* finite value is an integer counting hundredths (ONE = 1.0), a mean is   *)
(* the exact fraction sum/len in lowest terms, and the NaN of 0.0 / 0.0 is *)
(* the fraction 0/0.  The rounding of f64 addition and division and        *)
(* non-finite amplitudes are not modelled.                                 *)
(*                                                                         *)
(* The low-pass filter is an external crate: the callback's input is the   *)
(* last sample of the frame after filtering.                               *)
(***************************************************************************)
EXTENDS Integers, Sequences, FiniteSets

VARIABLES
    relay,        \* the samples buffered in the mpsc channel, oldest first
    senders,      \* the owners of a live Sender<f64> of the channel
    rxAlive,      \* the Receiver `rx` of main is not dropped yet
    audioOpen,    \* the audio subsystem still invokes the transform callback
    cbLogged,     \* the last callback invocation printed an error message
    pc,           \* where the control loop of main is
    collected,    \* collected_values, between recv_many and the mean
    intensity,    \* computed_intensity, NoValue outside an iteration
    dev,          \* the index in all_devices of the command in progress
    issued,       \* the set-intensity commands issued in this dispatch round
    failed,       \* the devices whose command of this round returned Err
    disconnects,  \* the calls of client.disconnect()
    emitted,      \* history: the samples the callback emitted since the last drain
    emitCount,    \* history: their number, saturating at MaxBurst + 1
    drainedFrom,  \* history: `emitted` as it was when the last drain ran
    loudLeft,     \* the non-silent frames the audio source may still deliver
    cbPanicked,   \* an invocation of the callback panicked
    tracing,      \* the run is a bounded one, whose whole history is kept
    lastBatch,    \* history of a bounded run: the batch the last drain returned
    framesLeft,   \* the frames the audio source may still deliver in a bounded run
    accepted,     \* history of a bounded run: the samples try_send queued, in order
    aggregated,   \* history of a bounded run: the batches the mean was taken of, joined
    drainedAfterClose, \* history of a bounded run: a drain ran after the audio source shut down
    now,          \* the time, in tick periods since the interval was created
    deadline,     \* the time at which the next interval.tick() completes
    roundAt       \* history of a bounded run: when the last dispatch round started

vars == <<relay, senders, rxAlive, audioOpen, cbLogged, pc, collected, intensity,
          dev, issued, failed, disconnects, emitted, emitCount, drainedFrom, loudLeft,
          cbPanicked, lastBatch, tracing, framesLeft, accepted, aggregated,
          drainedAfterClose, now, deadline, roundAt>>

audioVars == <<audioOpen, loudLeft>>
loopVars == <<pc, collected, intensity, dev, issued, failed, disconnects>>
histVars == <<emitted, emitCount, drainedFrom>>
runVars == <<tracing, framesLeft, accepted, aggregated, drainedAfterClose>>
clockVars == <<now, deadline, roundAt>>

-----------------------------------------------------------------------------
(* Program constants *)

\* const SAMPLE_LIMIT: usize = 16
SAMPLE_LIMIT == 16

\* first_freq *= 10.0
GAIN == 10

\* the 1.0 of f64::min(mean_value, 1.0), in hundredths
ONE == 100

(* Bounds of the model *)

\* all_devices: the number of devices the client found at startup (at least one)
NumDevices == 2

\* the history of a burst records at most this many emits
MaxBurst == 17

\* non-silent frames the audio source delivers in one run
MaxLoud == 1

\* the longest batch the aggregate is applied to on its own
MaxBatch == 3

\* the frames of the short bounded run, one tick window
MaxWindow == 4

\* the frames of the bounded run that starts one short of a full channel
MaxTrace == 3

\* the tick periods the clock counts
MaxTime == 2

Devices == 1 .. NumDevices

\* 0.0 / 0.0
NaN == [num |-> 0, den |-> 0]

\* no intensity computed: the control loop is outside the body of an iteration
NoValue == [num |-> -1, den |-> -1]

\* no dispatch round has started yet
NoRound == -1

\* The last sample of a filtered frame, in hundredths: silence, and the loud ones.
QuietRaw == 0
LoudRaws == {-50}
RawVals == {QuietRaw} \cup LoudRaws

\* The samples the aggregate is applied to on its own come from these.
AggRaws == RawVals \cup {2, 7}

\* The frames of one tick window: 0.02 and 0.2, conditioned to 0.2 and 2.0.
WindowRaws == {2, 20}

\* The frames of the bounded run across the capacity of the channel.
TraceRaws == {2}

-----------------------------------------------------------------------------
(* f64 arithmetic on the modelled values *)

AbsInt(i) == IF i < 0 THEN -i ELSE i

RECURSIVE Gcd(_, _)
Gcd(a, b) == IF b = 0 THEN a ELSE Gcd(b, a % b)

\* The fraction n/d (d > 0) in lowest terms.
Rat(n, d) ==
    LET g == Gcd(AbsInt(n), d)
    IN  [num |-> n \div g, den |-> d \div g]

\* f64::abs
FAbs(x) == AbsInt(x)

\* f64 * 10.0
FScale(x) == x * GAIN

\* iter().sum::<f64>()
RECURSIVE FSum(_)
FSum(s) == IF s = <<>> THEN 0 ELSE Head(s) + FSum(Tail(s))

\* sum / len as f64: 0.0 / 0.0 is NaN
FDiv(sum, len) == IF len = 0 THEN NaN ELSE Rat(sum, len)

\* f64::min(m, 1.0): the other operand when one is NaN
FMinOne(m) ==
    IF m = NaN THEN Rat(ONE, 1)
    ELSE IF m.num > ONE * m.den THEN Rat(ONE, 1) ELSE m

-----------------------------------------------------------------------------
(* The audio callback: the TransformFn::Basic closure *)

\* A buffered sample: its value, and (history) its place among the emits made
\* since the last drain.
Item(x, k) == [v |-> x, n |-> k]

Values(q) == [i \in 1 .. Len(q) |-> q[i].v]

\* first_freq = abs(last sample) * 10.0
Condition(raw) == FScale(FAbs(raw))

\* What global_tx.try_send(first_freq) returns on a channel holding q.
TrySendResult(q) ==
    IF ~rxAlive THEN "Closed"
    ELSE IF Len(q) >= SAMPLE_LIMIT THEN "Full"
    ELSE "Ok"

\* A ring buffer that overwrites its oldest sample when full.
TrySendDropOldest(q, x) ==
    IF Len(q) >= SAMPLE_LIMIT THEN Append(Tail(q), x) ELSE Append(q, x)

\* An unbounded channel: every sample is queued.
TrySendUnbounded(q, x) == Append(q, x)

\* A full channel takes the new sample in place of its newest one.
TrySendReplaceNewest(q, x) ==
    IF Len(q) >= SAMPLE_LIMIT THEN Append(SubSeq(q, 1, Len(q) - 1), x) ELSE Append(q, x)

\* The channel after try_send of x on a channel holding q.
TrySend(q, x) == IF TrySendResult(q) = "Ok" THEN Append(q, x) ELSE q

\* send().await / blocking_send: waits for room in a full channel.
SendWaitsForRoom(q) == Len(q) < SAMPLE_LIMIT

\* try_send returns at once whatever the channel holds: it never waits for room.
TrySendReady(q) == TRUE

\* A message for every Err of try_send, Err(Full) included.
LogsAnySendError(result) == result # "Ok"

\* The callback prints only for Err(TrySendError::Closed(_)).
LogsSendError(result) == result = "Closed"

\* One invocation of the callback on a frame whose filtered last sample is raw.
Callback(raw) ==
    /\ audioOpen
    /\ IF "GLOBAL_TX" \notin senders
       THEN \* GLOBAL_TX.get() is None: "Failed to get global TX...", return raw_values
            /\ cbLogged' = TRUE
            /\ UNCHANGED <<relay, histVars, accepted>>
       ELSE /\ TrySendReady(relay)
            /\ relay' = TrySend(relay, Item(Condition(raw), emitCount + 1))
            /\ cbLogged' = LogsSendError(TrySendResult(relay))
            /\ emitted' = IF emitCount < MaxBurst
                          THEN Append(emitted, Item(Condition(raw), emitCount + 1))
                          ELSE emitted
            /\ emitCount' = IF emitCount < MaxBurst THEN emitCount + 1 ELSE MaxBurst + 1
            /\ accepted' = IF tracing /\ TrySend(relay, Item(Condition(raw), emitCount + 1)) # relay
                           THEN Append(accepted, Item(Condition(raw), emitCount + 1))
                           ELSE accepted
            /\ UNCHANGED drainedFrom
    /\ loudLeft' = IF raw \in LoudRaws THEN loudLeft - 1 ELSE loudLeft
    /\ framesLeft' = IF tracing THEN framesLeft - 1 ELSE framesLeft
    /\ UNCHANGED <<senders, rxAlive, audioOpen, loopVars, cbPanicked, lastBatch, tracing,
                   aggregated, drainedAfterClose, clockVars>>

\* The audio subsystem invokes the callback on some frame.
AudioCallback ==
    \E raw \in RawVals :
        /\ raw \in LoudRaws => loudLeft > 0
        /\ Callback(raw)

\* The audio subsystem of a bounded run invokes the callback on one of raws.
TracedCallback(raws) ==
    /\ framesLeft > 0
    /\ \E raw \in raws : Callback(raw)

\* The Sender handles the callback owns.  TransformFn::Basic holds a function
\* that captures nothing: the only Sender is the one in the static GLOBAL_TX,
\* and a static is never dropped.
ClosureSenders == {}

\* The shutdown of the audio source empties the channel.
AudioShutdownDiscards ==
    /\ audioOpen
    /\ audioOpen' = FALSE
    /\ senders' = senders \ ClosureSenders
    /\ relay' = <<>>
    /\ UNCHANGED <<rxAlive, cbLogged, loopVars, histVars, loudLeft, cbPanicked,
                   lastBatch, runVars, clockVars>>

\* The audio source shuts down: the subsystem stops invoking the callback and
\* releases it.
AudioShutdown ==
    /\ audioOpen
    /\ audioOpen' = FALSE
    /\ senders' = senders \ ClosureSenders
    /\ UNCHANGED <<relay, rxAlive, cbLogged, loopVars, histVars, loudLeft, cbPanicked,
                   lastBatch, runVars, clockVars>>

\* The callback is invoked on an empty frame: raw_values.last() is None and the
\* unwrap panics.  Nothing is printed by the callback and nothing is returned;
\* the task that ran open_window_connect_audio unwinds, so the callback is
\* released and never invoked again, while main goes on.
EmptyFrame ==
    /\ audioOpen
    /\ framesLeft > 0
    /\ cbPanicked' = TRUE
    /\ audioOpen' = FALSE
    /\ senders' = senders \ ClosureSenders
    /\ framesLeft' = framesLeft - 1
    /\ UNCHANGED <<relay, rxAlive, cbLogged, loopVars, histVars, loudLeft, lastBatch,
                   tracing, accepted, aggregated, drainedAfterClose, clockVars>>

-----------------------------------------------------------------------------
(* The control loop of main *)

Min(a, b) == IF a < b THEN a ELSE b

\* recv(): one sample per poll.
RecvOneBatch(q, limit) == SubSeq(q, 1, Min(Len(q), 1))

\* The batch newest first.
RecvManyNewestFirst(q, limit) ==
    [i \in 1 .. Min(Len(q), limit) |-> q[Min(Len(q), limit) + 1 - i]]

\* What rx.recv_many(&mut collected_values, limit) appends on a channel holding q.
RecvManyBatch(q, limit) == SubSeq(q, 1, Min(Len(q), limit))

\* The drain leaves the channel as it was.
RecvManyRestAll(q, limit) == q

\* What it leaves in the channel.
RecvManyRest(q, limit) == SubSeq(q, Min(Len(q), limit) + 1, Len(q))

\* The channel is closed once every Sender is dropped.
ChannelClosed == senders = {}

\* The mean without the clamp.
AggregateNoClamp(samples) == FDiv(FSum(samples), Len(samples))

\* The sum divided by the capacity of the batch instead of its length.
AggregateByCapacity(samples) ==
    FMinOne(IF Len(samples) = 0 THEN NaN ELSE Rat(FSum(samples), SAMPLE_LIMIT))

\* mean_value and computed_intensity of a batch of samples
\* The sum clamped, the division by the length left out.
AggregateNoMean(samples) == FMinOne(Rat(FSum(samples), 1))

Aggregate(samples) == FMinOne(FDiv(FSum(samples), Len(samples)))

\* recv_many returns: with a batch, or with 0 at the end of the stream, and then
\* the loop breaks, main calls client.disconnect() and returns, dropping rx.
RecvMany ==
    /\ pc = "recv"
    /\ relay # <<>> \/ ChannelClosed
    /\ IF Len(RecvManyBatch(relay, SAMPLE_LIMIT)) = 0
       THEN /\ pc' = "stopped"
            /\ disconnects' = disconnects + 1
            /\ rxAlive' = FALSE
            /\ UNCHANGED <<relay, collected, histVars, lastBatch, drainedAfterClose>>
       ELSE /\ pc' = "mean"
            /\ collected' = RecvManyBatch(relay, SAMPLE_LIMIT)
            /\ relay' = RecvManyRest(relay, SAMPLE_LIMIT)
            /\ drainedFrom' = emitted
            /\ emitted' = <<>>
            /\ emitCount' = 0
            /\ lastBatch' = IF tracing THEN RecvManyBatch(relay, SAMPLE_LIMIT) ELSE lastBatch
            /\ drainedAfterClose' = (drainedAfterClose \/ (tracing /\ ~audioOpen))
            /\ UNCHANGED <<disconnects, rxAlive>>
    /\ UNCHANGED <<senders, audioVars, cbLogged, intensity, dev, issued, failed, cbPanicked,
                   tracing, framesLeft, accepted, aggregated, clockVars>>

\* The mean of the batch, clamped; collected_values is not read after it.
ComputeIntensity ==
    /\ pc = "mean"
    /\ intensity' = Aggregate(Values(collected))
    /\ collected' = <<>>
    /\ dev' = 1
    /\ issued' = <<>>
    /\ failed' = {}
    /\ pc' = "vibrate"
    /\ aggregated' = IF tracing THEN aggregated \o collected ELSE aggregated
    /\ UNCHANGED <<relay, senders, rxAlive, audioVars, cbLogged, disconnects, histVars,
                   cbPanicked, lastBatch, tracing, framesLeft, accepted, drainedAfterClose,
                   clockVars>>

\* device.vibrate(ScalarValue(computed_intensity)) is called on device dev.
VibrateCall ==
    /\ pc = "vibrate"
    /\ issued' = Append(issued, [dev |-> dev, value |-> intensity])
    /\ pc' = "inVibrate"
    /\ roundAt' = IF tracing /\ dev = 1 THEN now ELSE roundAt
    /\ UNCHANGED <<relay, senders, rxAlive, audioVars, cbLogged, collected, intensity,
                   dev, failed, disconnects, histVars, cbPanicked, lastBatch, runVars,
                   now, deadline>>

\* The first Err ends the dispatch round.
AfterVibrateStopOnErr(ok, d) ==
    IF ok /\ d < NumDevices THEN [pc |-> "vibrate", dev |-> d + 1]
    ELSE [pc |-> "tick", dev |-> d]

\* The loop goes back to the drain after the last device, without the tick.
AfterVibrateNoTick(ok, d) ==
    IF d < NumDevices THEN [pc |-> "vibrate", dev |-> d + 1]
    ELSE [pc |-> "recv", dev |-> d]

\* An Err of a command is returned from main (vibrate(..).await?): the loop ends.
AfterVibratePropagatesErr(ok, d) ==
    IF ~ok THEN [pc |-> "stopped", dev |-> d]
    ELSE IF d < NumDevices THEN [pc |-> "vibrate", dev |-> d + 1]
    ELSE [pc |-> "tick", dev |-> d]

\* Where the loop goes once the command to device d returned ok or Err: the
\* error is printed and the for loop goes on.
AfterVibrate(ok, d) ==
    IF d < NumDevices THEN [pc |-> "vibrate", dev |-> d + 1]
    ELSE [pc |-> "tick", dev |-> d]

\* The command returns, with Ok or with Err.
VibrateReturn ==
    /\ pc = "inVibrate"
    /\ \E ok \in BOOLEAN :
        /\ failed' = IF ok THEN failed ELSE failed \cup {dev}
        /\ pc' = AfterVibrate(ok, dev).pc
        /\ dev' = AfterVibrate(ok, dev).dev
    /\ UNCHANGED <<relay, senders, rxAlive, audioVars, cbLogged, collected, intensity,
                   issued, disconnects, histVars, cbPanicked, lastBatch, runVars, clockVars>>

\* The loop once interval.tick() has completed: the iteration's locals go out
\* of scope.
AfterTick ==
    /\ pc = "tick"
    /\ pc' = "recv"
    /\ intensity' = NoValue
    /\ dev' = 1
    /\ issued' = <<>>
    /\ failed' = {}
    /\ UNCHANGED <<relay, senders, rxAlive, audioVars, cbLogged, collected, disconnects,
                   histVars, cbPanicked, lastBatch, runVars, roundAt>>

\* interval.tick() completes, time left out: it does sooner or later.
Tick ==
    /\ AfterTick
    /\ UNCHANGED <<now, deadline>>

\* interval.tick() completes, on the clock: as soon as the deadline of the
\* interval is reached, at once if it has passed.  The first deadline is the
\* creation of the interval, and each tick moves the deadline on by one period
\* (MissedTickBehavior::Burst, the default).
TimedTick ==
    /\ AfterTick
    /\ now >= deadline
    /\ deadline' = deadline + 1
    /\ UNCHANGED now

\* One tick period passes.
TimePasses ==
    /\ now < MaxTime
    /\ now' = now + 1
    /\ UNCHANGED <<relay, senders, rxAlive, audioVars, cbLogged, loopVars, histVars,
                   cbPanicked, lastBatch, runVars, deadline, roundAt>>

-----------------------------------------------------------------------------
(* Specifications *)

\* The state once main has created the channel and published its Sender, the
\* callback having emitted the burst q (none at startup) before the first poll.
InitWith(q, loud, frames) ==
    /\ relay = q
    /\ senders = {"GLOBAL_TX"}
    /\ rxAlive = TRUE
    /\ audioOpen = TRUE
    /\ cbLogged = FALSE
    /\ pc = "recv"
    /\ collected = <<>>
    /\ intensity = NoValue
    /\ dev = 1
    /\ issued = <<>>
    /\ failed = {}
    /\ disconnects = 0
    /\ emitted = q
    /\ emitCount = Len(q)
    /\ drainedFrom = <<>>
    /\ loudLeft = loud
    /\ cbPanicked = FALSE
    /\ lastBatch = <<>>
    /\ tracing = (frames > 0)
    /\ framesLeft = frames
    /\ accepted = IF frames > 0 THEN q ELSE <<>>
    /\ aggregated = <<>>
    /\ drainedAfterClose = FALSE
    /\ now = 0
    /\ deadline = 0
    /\ roundAt = NoRound

Init == InitWith(<<>>, MaxLoud, 0)

\* The burst the callback leaves in an empty channel from the frames raws.
Burst(raws) == [i \in 1 .. Len(raws) |-> Item(Condition(raws[i]), i)]

SeqsUpTo(S, n) == UNION {[1 .. k -> S] : k \in 1 .. n}

\* The control loop polls a channel holding any short burst.
InitAgg == \E raws \in SeqsUpTo(AggRaws, MaxBatch) : InitWith(Burst(raws), 0, 0)

ControlNext == RecvMany \/ ComputeIntensity \/ VibrateCall \/ VibrateReturn \/ Tick

Next == AudioCallback \/ AudioShutdown \/ ControlNext

Spec == Init /\ [][Next]_vars

\* The tokio runtime schedules the main task whenever it can run, and here the
\* devices answer every command and the timer fires.
FairSpec == Spec /\ WF_vars(ControlNext)

\* The control loop alone, on every short burst: the aggregate as a function.
SpecAgg == InitAgg /\ [][ControlNext]_vars

\* One tick window: the audio source delivers at most MaxWindow frames, an
\* empty one among them or not, and may shut down.
InitWindow == InitWith(<<>>, 0, MaxWindow)

NextWindow == TracedCallback(WindowRaws) \/ EmptyFrame \/ AudioShutdown \/ ControlNext

SpecWindow == InitWindow /\ [][NextWindow]_vars

\* A bounded run across the capacity of the channel: the callback has queued
\* SAMPLE_LIMIT - 1 samples before the control loop first polls, and the audio
\* source delivers at most MaxTrace frames more.
InitTrace ==
    InitWith(Burst([i \in 1 .. SAMPLE_LIMIT - 1 |-> CHOOSE raw \in TraceRaws : TRUE]), 0, MaxTrace)

NextTrace == TracedCallback(TraceRaws) \/ AudioShutdown \/ ControlNext

SpecTrace == InitTrace /\ [][NextTrace]_vars

FairTrace == SpecTrace /\ WF_vars(ControlNext)

\* One tick window on the clock.
TimedControlNext ==
    RecvMany \/ ComputeIntensity \/ VibrateCall \/ VibrateReturn \/ TimedTick

NextClock == TracedCallback(WindowRaws) \/ AudioShutdown \/ TimePasses \/ TimedControlNext

SpecClock == InitWindow /\ [][NextClock]_vars

-----------------------------------------------------------------------------
(* Termination *)

\* C1: once the audio source has shut down, the channel closes, recv_many
\* returns 0 and the control loop leaves its loop and stops.
C1_ShutdownStopsDriver == (~audioOpen) ~> (pc = "stopped")

\* C2: client.disconnect() is called at most once, only after recv_many
\* signalled the end of the stream (channel closed and empty), no command is
\* issued to a device after it, and once the producer has closed with nothing
\* left to drain it is called exactly once.
C2_DisconnectExactlyOnce ==
    /\ [](disconnects <= 1)
    /\ [](disconnects = 1 => ChannelClosed /\ relay = <<>> /\ pc = "stopped")
    /\ [][disconnects >= 1 => issued' = issued]_vars
    /\ (~audioOpen /\ relay = <<>>) ~> (disconnects = 1)

-----------------------------------------------------------------------------
(* The relay *)

\* C3: the callback never waits: whatever the channel holds and wherever the
\* control loop is, an invocation of the callback on any frame can run to its
\* end at once.
C3_CallbackNeverBlocks ==
    audioOpen =>
        \A raw \in RawVals : (raw \in LoudRaws => loudLeft > 0) => ENABLED Callback(raw)

\* The callback ran on a full channel while the control loop was inside a
\* device command.
C3_Witness ==
    /\ audioOpen
    /\ pc = "inVibrate"
    /\ Len(relay) = SAMPLE_LIMIT
    /\ emitCount > SAMPLE_LIMIT

\* C4: a callback that emits while the channel holds SAMPLE_LIMIT samples leaves
\* the channel as it is, prints no error and does not touch the control loop.
C4_DropOnFull ==
    [][(AudioCallback /\ Len(relay) = SAMPLE_LIMIT)
        => (relay' = relay /\ ~cbLogged' /\ UNCHANGED loopVars)]_vars

\* A sample was dropped: more emits than the full channel holds, and no error.
C4_Witness ==
    /\ Len(relay) = SAMPLE_LIMIT
    /\ emitCount = SAMPLE_LIMIT + 1
    /\ ~cbLogged

\* C5: the channel never holds more than SAMPLE_LIMIT samples and no drain
\* returns more than SAMPLE_LIMIT.
C5_Capacity ==
    /\ Len(relay) <= SAMPLE_LIMIT
    /\ Len(collected) <= SAMPLE_LIMIT

\* A full batch was drained and the channel filled up again behind it.
C5_Witness ==
    /\ Len(collected) = SAMPLE_LIMIT
    /\ Len(relay) = SAMPLE_LIMIT

\* C6: after at most SAMPLE_LIMIT emits since the last drain, the drain returns
\* all of them in the order of their emission.
C6_FifoNoLoss ==
    (pc = "mean" /\ Len(drainedFrom) <= SAMPLE_LIMIT) => collected = drainedFrom

\* A drain of exactly SAMPLE_LIMIT emits, a loud one among them.
C6_Witness ==
    /\ pc = "mean"
    /\ Len(drainedFrom) = SAMPLE_LIMIT
    /\ \E i \in 1 .. Len(collected) : collected[i].v > ONE

RECURSIVE IsSubsequence(_, _)
IsSubsequence(a, b) ==
    IF a = <<>> THEN TRUE
    ELSE IF b = <<>> THEN FALSE
    ELSE IF Head(a) = Head(b) THEN IsSubsequence(Tail(a), Tail(b))
    ELSE IsSubsequence(a, Tail(b))

\* C7: after more than SAMPLE_LIMIT emits since the last drain, the drain returns
\* at most SAMPLE_LIMIT samples, and they are a subsequence of the emitted ones
\* (each emit is a distinct item, so none is returned twice).  The history
\* holds the first MaxBurst emits of a burst.
C7_OverflowKeepsOrder ==
    (pc = "mean" /\ Len(drainedFrom) > SAMPLE_LIMIT) =>
        /\ Len(collected) <= SAMPLE_LIMIT
        /\ IsSubsequence(collected, drainedFrom)

\* A drain after MaxBurst emits.
C7_Witness ==
    /\ pc = "mean"
    /\ Len(drainedFrom) = MaxBurst
    /\ Len(collected) = SAMPLE_LIMIT

-----------------------------------------------------------------------------
(* The aggregate *)

InUnit(r) == r.den > 0 /\ 0 <= r.num /\ r.num <= ONE * r.den

\* C8: the intensity the control loop computes from a drained batch, and so
\* every intensity it commands to a device, is in [0.0, 1.0].
C8_IntensityInUnit ==
    /\ intensity # NoValue => InUnit(intensity)
    /\ \A i \in 1 .. Len(issued) : InUnit(issued[i].value)

\* The batch [5.0, 5.0] was drained and 1.0 commanded.
C8_Witness ==
    /\ Values(drainedFrom) = <<5 * ONE, 5 * ONE>>
    /\ Len(issued) = NumDevices
    /\ \A i \in 1 .. Len(issued) : issued[i].value = Rat(ONE, 1)

Perms(n) == {f \in [1 .. n -> 1 .. n] : \A i, j \in 1 .. n : i # j => f[i] # f[j]}

Permuted(s, f) == [i \in 1 .. Len(s) |-> s[f[i]]]

\* The intensity computed from the drained batch is that of each of its permutations.
PermutationInvariant ==
    \A f \in Perms(Len(drainedFrom)) :
        Aggregate(Permuted(Values(drainedFrom), f)) = intensity

\* C9 as stated: the aggregate is invariant under permutation of the batch, and
\* the aggregate of a single-sample batch [x] is x.
C9_SingleIsIdentity ==
    intensity # NoValue =>
        /\ PermutationInvariant
        /\ Len(drainedFrom) = 1 => intensity = Rat(drainedFrom[1].v, 1)

\* C9 amended: the aggregate is invariant under permutation of the batch, and
\* the aggregate of a single-sample batch [x] is x when x <= 1.0 and 1.0 otherwise.
C9_SingleIsClamped ==
    intensity # NoValue =>
        /\ PermutationInvariant
        /\ Len(drainedFrom) = 1 =>
              intensity = IF drainedFrom[1].v <= ONE
                          THEN Rat(drainedFrom[1].v, 1)
                          ELSE Rat(ONE, 1)

\* The aggregate of a single sample above 1.0 was computed.
C9_Witness ==
    /\ intensity = Rat(ONE, 1)
    /\ Len(drainedFrom) = 1
    /\ drainedFrom[1].v > ONE

-----------------------------------------------------------------------------
(* Dispatch *)

\* The commands of a round to the first k devices, each carrying x.
Commands(k, x) == [d \in 1 .. k |-> [dev |-> d, value |-> x]]

\* C10: in a dispatch round every device is issued exactly one command, in turn,
\* carrying the computed intensity, whichever commands returned Err; the round
\* reaches the tick with all of them issued.
C10_FailureIsolation ==
    /\ pc = "vibrate" => issued = Commands(dev - 1, intensity)
    /\ pc = "inVibrate" => issued = Commands(dev, intensity)
    /\ pc = "tick" => issued = Commands(NumDevices, intensity)
    /\ failed # {} => pc \in {"vibrate", "inVibrate", "tick"}

\* The command to the first device failed, and the round went on to the tick.
C10_Witness ==
    /\ pc = "tick"
    /\ 1 \in failed
    /\ Len(issued) = NumDevices

-----------------------------------------------------------------------------
(* End to end *)

\* min(mean(B), 1.0) of a non-empty batch B of finite samples, as a fraction.
MinMeanOne(B) ==
    IF FSum(B) >= Len(B) * ONE THEN Rat(ONE, 1) ELSE Rat(FSum(B), Len(B))

\* C11: every command of a dispatch round carries min(mean(B), 1.0), B being
\* the batch the drain of the same iteration removed from the channel; a batch
\* of samples 0.2 only leads to commands of 0.2, whatever part of the emitted
\* samples it is, and the batch of the single sample 2.0 to commands of 1.0.
C11_EndToEndValue ==
    \A i \in 1 .. Len(issued) :
        /\ lastBatch # <<>>
        /\ issued[i].value = MinMeanOne(Values(lastBatch))
        /\ (\A j \in 1 .. Len(lastBatch) : 5 * lastBatch[j].v = ONE) =>
               5 * issued[i].value.num = ONE * issued[i].value.den
        /\ Values(lastBatch) = <<2 * ONE>> => issued[i].value = Rat(ONE, 1)

\* Four samples 0.2 were emitted and drained in more than one batch, and the
\* round of the last batch commanded 0.2 to every device.
C11_Witness ==
    /\ pc = "tick"
    /\ Len(accepted) = 4
    /\ \A j \in 1 .. Len(accepted) : 5 * accepted[j].v = ONE
    /\ aggregated = accepted
    /\ Len(lastBatch) < 4
    /\ issued = Commands(NumDevices, Rat(ONE, 5))

-----------------------------------------------------------------------------
(* Failures inside the callback *)

\* The step is an invocation of the callback on a frame.
CallbackInvoked == framesLeft' < framesLeft

\* The invocation met a failure: the frame was empty, GLOBAL_TX was not set, or
\* try_send returned Err(Closed).
CallbackFailed ==
    \/ cbPanicked'
    \/ "GLOBAL_TX" \notin senders
    \/ TrySendResult(relay) = "Closed"

\* C12: an invocation of the callback that meets a failure prints a message and
\* returns, and the audio source goes on invoking the callback.
C12_CallbackFailureNotFatal ==
    [][(CallbackInvoked /\ CallbackFailed) => (cbLogged' /\ ~cbPanicked' /\ audioOpen')]_vars

-----------------------------------------------------------------------------
(* Loss of samples *)

\* C13 as stated: a sample the callback emits and the channel does not take is
\* reported by a message when it is dropped.
C13_NoSilentLoss ==
    [][(CallbackInvoked /\ relay' = relay) => cbLogged']_vars

\* C13 amended: a sample the callback emits is lost only when the channel holds
\* SAMPLE_LIMIT samples, and then without any message; otherwise it joins the
\* channel behind the others, and samples leave the channel only into the
\* batch of a drain.
C13_LossOnlyOnFullUnreported ==
    [][/\ (CallbackInvoked /\ relay' = relay) => (Len(relay) = SAMPLE_LIMIT /\ ~cbLogged')
       /\ (CallbackInvoked /\ relay' # relay) =>
              /\ Len(relay') = Len(relay) + 1
              /\ SubSeq(relay', 1, Len(relay)) = relay
              /\ relay'[Len(relay')].n = emitCount'
       /\ (~CallbackInvoked /\ relay' # relay) => relay = collected' \o relay']_vars

\* Two samples were lost without a message before the first drain.
C13_Witness ==
    /\ pc = "recv"
    /\ drainedFrom = <<>>
    /\ Len(relay) = SAMPLE_LIMIT
    /\ emitCount = SAMPLE_LIMIT + 2
    /\ ~cbLogged

-----------------------------------------------------------------------------
(* The order of the steps of the control loop *)

\* The steps of an iteration, each with the one that follows it.
StepOrder ==
    {<<"recv", "mean">>, <<"mean", "vibrate">>, <<"vibrate", "inVibrate">>,
     <<"inVibrate", "vibrate">>, <<"inVibrate", "tick">>, <<"tick", "recv">>,
     <<"recv", "stopped">>}

\* C14: an iteration is one drain, one aggregate, one command to each device
\* in turn and one wait for the tick, in this order; the drain takes samples
\* only when no dispatch round is under way, and the round is complete when
\* the wait for the tick starts.
C14_StepOrder ==
    [][/\ pc' # pc => <<pc, pc'>> \in StepOrder
       /\ (relay' # relay /\ Len(relay') < Len(relay) + 1) =>
              (pc = "recv" /\ pc' = "mean" /\ issued = <<>> /\ intensity = NoValue)
       /\ (pc = "mean" /\ pc' # pc) => (intensity = NoValue /\ intensity' # NoValue)
       /\ (pc = "inVibrate" /\ pc' = "vibrate") => (dev < NumDevices /\ dev' = dev + 1)
       /\ pc' = "tick" => (Len(issued') = NumDevices /\ dev' = NumDevices)
       /\ (pc = "tick" /\ pc' # pc) => (issued' = <<>> /\ intensity' = NoValue)]_vars

\* The second iteration has drained its batch: the round of the first one is
\* over and its tick has passed.
C14_Witness ==
    /\ pc = "mean"
    /\ aggregated # <<>>
    /\ collected # <<>>
    /\ issued = <<>>

-----------------------------------------------------------------------------
(* Cadence *)

\* The step starts a dispatch round: the command to the first device is issued.
RoundStarts == pc = "vibrate" /\ dev = 1 /\ pc' = "inVibrate"

\* C15: at least one full tick period lies between the starts of two
\* consecutive dispatch rounds.
C15_Cadence ==
    [][(RoundStarts /\ roundAt # NoRound) => now >= roundAt + 1]_vars

-----------------------------------------------------------------------------
(* The end of the audio source *)

\* C17: the samples in the channel when the audio source shuts down are not
\* discarded: the control loop drains them and commands their mean to every
\* device, and recv_many signals the end of the stream, which stops the loop,
\* only when the channel is closed and empty.
C17_DrainBeforeStop ==
    /\ (~audioOpen /\ relay # <<>>) ~>
           (/\ pc = "tick"
            /\ relay = <<>>
            /\ aggregated = accepted
            /\ issued = Commands(NumDevices, intensity))
    /\ [][(~audioOpen' /\ relay' # relay) => (relay = lastBatch' \o relay' /\ pc' = "mean")]_vars
    /\ [][(pc # "stopped" /\ pc' = "stopped") => (ChannelClosed /\ relay = <<>>)]_vars

\* A full channel was left behind by the audio source, drained after the
\* shutdown and dispatched.
C17_Witness ==
    /\ drainedAfterClose
    /\ pc = "tick"
    /\ Len(lastBatch) = SAMPLE_LIMIT
    /\ relay = <<>>
    /\ aggregated = accepted
    /\ issued = Commands(NumDevices, intensity)

-----------------------------------------------------------------------------
(* Consumption of the accepted samples *)

\* C18: whatever the interleaving of the callback with the control loop, the
\* batches the mean was taken of, joined in order, then the batch drained and
\* not yet aggregated, then the channel, are the samples the channel accepted,
\* in the order of their emission: each accepted sample is in exactly one batch
\* or still waiting, and none twice.
C18_ExactlyOnce ==
    /\ accepted = aggregated \o collected \o relay
    /\ pc \in {"vibrate", "inVibrate", "tick"} =>
           /\ collected = <<>>
           /\ Len(lastBatch) <= Len(aggregated)
           /\ lastBatch = SubSeq(aggregated, Len(aggregated) - Len(lastBatch) + 1, Len(aggregated))
    /\ pc = "mean" => (collected = lastBatch /\ collected # <<>>)

\* The channel overflowed, its 16 samples were drained and aggregated, and a
\* sample accepted after them was drained and aggregated in a second batch.
C18_Witness ==
    /\ framesLeft = 0
    /\ Len(accepted) = SAMPLE_LIMIT + 1
    /\ aggregated = accepted
    /\ Len(lastBatch) = 1
    /\ pc = "tick"

-----------------------------------------------------------------------------
(* Overflow *)

\* C19: when more than SAMPLE_LIMIT samples were emitted since the last drain,
\* the next drain returns the first SAMPLE_LIMIT of them, in order, and the
\* later ones are lost.
C19_OverflowKeepsOldest ==
    (pc = "mean" /\ Len(drainedFrom) > SAMPLE_LIMIT) =>
        /\ collected = SubSeq(drainedFrom, 1, SAMPLE_LIMIT)
        /\ \A i \in 1 .. Len(collected) : collected[i].n = i

\* Sixteen silent samples and then a loud one were emitted, and the drain
\* returned the sixteen silent ones.
C19_Witness ==
    /\ pc = "mean"
    /\ Len(drainedFrom) = SAMPLE_LIMIT + 1
    /\ drainedFrom[SAMPLE_LIMIT + 1].v > 0
    /\ Len(collected) = SAMPLE_LIMIT
    /\ \A i \in 1 .. Len(collected) : collected[i].v = 0

-----------------------------------------------------------------------------
(* Progress *)

\* The most samples a bounded run across the capacity can have accepted.
MaxAccepted == SAMPLE_LIMIT - 1 + MaxTrace

\* C20: when the control loop is scheduled and every command returns, each
\* sample the channel accepted is eventually drained and aggregated, and a
\* round that commands every device follows; and as long as a command has not
\* returned, no further command is issued, the callback can run and the
\* channel holds at most SAMPLE_LIMIT samples.
C20_Progress ==
    /\ \A k \in 1 .. MaxAccepted :
           (Len(accepted) >= k /\ Len(aggregated) < k) ~>
               (/\ Len(aggregated) >= k
                /\ pc = "tick"
                /\ issued = Commands(NumDevices, intensity))
    /\ [][(pc = "inVibrate" /\ pc' = "inVibrate") => issued' = issued]_vars
    /\ [](pc = "inVibrate" =>
              /\ Len(relay) <= SAMPLE_LIMIT
              /\ (audioOpen /\ framesLeft > 0) => ENABLED TracedCallback(TraceRaws))

\* Every frame of the run was accepted, and all the samples were drained, in
\* several batches, aggregated and followed by a full round.
C20_Witness ==
    /\ framesLeft = 0
    /\ Len(accepted) = MaxAccepted
    /\ aggregated = accepted
    /\ Len(lastBatch) < MaxTrace
    /\ pc = "tick"
    /\ issued = Commands(NumDevices, intensity)

=============================================================================
